---- MODULE Spec2Model ----
(***************************************************************************)
(* Model of the lexical scanner of src/src/lexer.rs (struct Lexer).        *)
(*                                                                         *)
(* The scanner owns a byte buffer `input` and the cursor fields `pos`,     *)
(* `read_pos` and `ch`.  Bytes are modelled as the integers 0..255, the    *)
(* buffer as a sequence of bytes.  Rust indexes from 0, TLA+ sequences     *)
(* from 1: byte i of the buffer is input[i + 1].                           *)
(*                                                                         *)
(* A panic (unreachable!(), an out-of-bounds index or slice) is modelled   *)
(* by the field `panic` of the scanner record: once it is set the call     *)
(* that raised it returns no token.                                        *)
(***************************************************************************)
EXTENDS Integers, Sequences, FiniteSets, TLC

(***************************************************************************)
(* Bounds of the model.                                                    *)
(***************************************************************************)
\* number of fragments of CoreFrags concatenated into an input
MaxFrags == 3
\* number of fragments of WideFrags concatenated into an input
MaxWide == 2
\* number of fragments of WordFrags concatenated into an input
MaxWords == 3
\* number of next_token calls that may return EOF before the caller stops
MaxEofCalls == 3

(***************************************************************************)
(* Byte values named in the source.                                        *)
(***************************************************************************)
CH_NONE == 0
CH_ASSIGN == 61
CH_BANG == 33
CH_LBRACE == 123
CH_RBRACE == 125
CH_LPAREN == 40
CH_RPAREN == 41
CH_COMMA == 44
CH_SEMICOLON == 59
CH_PLUS == 43
CH_MINUS == 45
CH_ASTERISK == 42
CH_SLASH == 47
CH_LT == 60
CH_GT == 62
CH_0 == 48
CH_9 == 57
CH_a == 97
CH_z == 122
CH_A == 65
CH_Z == 90
CH_UNDERSCORE == 95
\* the bytes u8::is_ascii_whitespace accepts: space, tab, line feed, form
\* feed, carriage return
CH_SPACE == 32
CH_TAB == 9
CH_LF == 10
CH_FF == 12
CH_CR == 13

\* u8::is_ascii_alphabetic
is_ascii_alphabetic(b) ==
    \/ (CH_A <= b /\ b <= CH_Z)
    \/ (CH_a <= b /\ b <= CH_z)

\* u8::is_ascii_digit
is_ascii_digit(b) == CH_0 <= b /\ b <= CH_9

\* variant: carriage return is not taken for whitespace
is_whitespace_no_cr(b) == b \in {CH_SPACE, CH_TAB, CH_LF, CH_FF}

\* variant: the vertical tab is taken for whitespace too
is_whitespace_with_vt(b) == b \in {CH_SPACE, CH_TAB, CH_LF, 11, CH_FF, CH_CR}

\* u8::is_ascii_whitespace
is_ascii_whitespace(b) == b \in {CH_SPACE, CH_TAB, CH_LF, CH_FF, CH_CR}

\* variant: the underscore does not continue an identifier
IsIdentByteNoUnderscore(b) ==
    (CH_A <= b /\ b <= CH_Z) \/ (CH_a <= b /\ b <= CH_z)

\* the loop condition of read_ident
IsIdentByte(b) == is_ascii_alphabetic(b) \/ b = CH_UNDERSCORE

(***************************************************************************)
(* Tokens: enum Token.  A token is a record of its variant and its payload *)
(* (the String of IDENT and INT, empty for every other variant).           *)
(***************************************************************************)
TokenTypes ==
    {"ILLEGAL", "EOF", "IDENT", "INT", "ASSIGN", "PLUS", "MINUS", "BANG",
     "ASTERISK", "SLASH", "LT", "GT", "EQUAL", "NOTEQUAL", "COMMA",
     "SEMICOLON", "LPAREN", "RPAREN", "LBRACE", "RBRACE", "FUNCTION", "LET",
     "TRUE", "FALSE", "IF", "ELSE", "RETURN"}

Tok(type) == [type |-> type, lit |-> <<>>]

TokLit(type, s) == [type |-> type, lit |-> s]

\* what a call that panicked hands back: nothing
NoToken == [type |-> "NONE", lit |-> <<>>]

\* the string literals of the keyword match, as bytes
KW_fn == <<102, 110>>
KW_let == <<108, 101, 116>>
KW_if == <<105, 102>>
KW_return == <<114, 101, 116, 117, 114, 110>>
KW_true == <<116, 114, 117, 101>>
KW_false == <<102, 97, 108, 115, 101>>
KW_else == <<101, 108, 115, 101>>

(***************************************************************************)
(* String::from_utf8_lossy(bytes).to_string(): the bytes of the resulting  *)
(* String.  A well-formed UTF-8 sequence is copied, any other byte is      *)
(* replaced by U+FFFD (EF BF BD).                                          *)
(***************************************************************************)
IsCont(bs, i) == i <= Len(bs) /\ 128 <= bs[i] /\ bs[i] <= 191

Utf8Width(bs, i) ==
    LET b == bs[i] IN
    IF b < 128 THEN 1
    ELSE IF 194 <= b /\ b <= 223 /\ IsCont(bs, i + 1) THEN 2
    ELSE IF 224 <= b /\ b <= 239 /\ IsCont(bs, i + 1) /\ IsCont(bs, i + 2)
            /\ (b = 224 => bs[i + 1] >= 160)
            /\ (b = 237 => bs[i + 1] <= 159) THEN 3
    ELSE IF 240 <= b /\ b <= 244 /\ IsCont(bs, i + 1) /\ IsCont(bs, i + 2)
            /\ IsCont(bs, i + 3)
            /\ (b = 240 => bs[i + 1] >= 144)
            /\ (b = 244 => bs[i + 1] <= 143) THEN 4
    ELSE 0

RECURSIVE Utf8LossyFrom(_, _)
Utf8LossyFrom(bs, i) ==
    IF i > Len(bs) THEN <<>>
    ELSE LET w == Utf8Width(bs, i) IN
         IF w = 0 THEN <<239, 191, 189>> \o Utf8LossyFrom(bs, i + 1)
         ELSE SubSeq(bs, i, i + w - 1) \o Utf8LossyFrom(bs, i + w)

from_utf8_lossy(bs) == Utf8LossyFrom(bs, 1)

(***************************************************************************)
(* The scanner: struct Lexer and its methods, as operators on a record     *)
(* [input, pos, read_pos, ch, panic].                                      *)
(***************************************************************************)
Panicked(l) == l.panic # "none"

\* variant: the end of the buffer is tested with > in place of >=
read_char_late_check(l) ==
    IF Panicked(l) THEN l
    ELSE IF l.read_pos > Len(l.input)
         THEN [l EXCEPT !.ch = CH_NONE, !.pos = l.read_pos,
                        !.read_pos = l.read_pos + 1]
    ELSE IF l.read_pos < Len(l.input)
         THEN [l EXCEPT !.ch = l.input[l.read_pos + 1], !.pos = l.read_pos,
                        !.read_pos = l.read_pos + 1]
    ELSE [l EXCEPT !.panic = "index"]

\* variant: past the end of the buffer read_pos goes back to its start
read_char_wrap(l) ==
    IF Panicked(l) THEN l
    ELSE [l EXCEPT !.ch = IF l.read_pos >= Len(l.input) THEN CH_NONE
                           ELSE l.input[l.read_pos + 1],
                   !.pos = l.read_pos,
                   !.read_pos = (l.read_pos + 1) % (Len(l.input) + 2)]

\* self.input[i]: a checked index; -1 stands for the panic of an index out
\* of bounds
Index(buf, i) == IF i < Len(buf) THEN buf[i + 1] ELSE -1

read_char(l) ==
    IF Panicked(l) THEN l
    ELSE LET b == IF l.read_pos >= Len(l.input)
                  THEN CH_NONE
                  ELSE Index(l.input, l.read_pos)
         IN  IF b < 0 THEN [l EXCEPT !.panic = "index"]
             ELSE [l EXCEPT !.ch = b, !.pos = l.read_pos,
                            !.read_pos = l.read_pos + 1]

\* variant: no priming read
new_unprimed(in) ==
    [input |-> in, read_pos |-> 0, ch |-> 0, pos |-> 0, panic |-> "none"]

\* Lexer::new: the fields, then one priming read
new(in) ==
    read_char([input |-> in, read_pos |-> 0, ch |-> 0, pos |-> 0,
              panic |-> "none"])

\* variant: the byte at pos, not at read_pos
peek_char_current(l) ==
    IF l.pos >= Len(l.input) THEN 0
    ELSE l.input[l.pos + 1]

\* peek_char: the byte at read_pos, 0 past the end (-1: the index panicked)
peek_char(l) ==
    IF l.read_pos >= Len(l.input) THEN 0
    ELSE Index(l.input, l.read_pos)

\* variant: an if in place of the while
skip_whitespace_once(l) ==
    IF ~Panicked(l) /\ l.ch \in {CH_SPACE, CH_TAB, CH_LF, CH_FF, CH_CR}
    THEN [l EXCEPT !.ch = IF l.read_pos >= Len(l.input) THEN CH_NONE
                           ELSE l.input[l.read_pos + 1],
                   !.pos = l.read_pos, !.read_pos = l.read_pos + 1]
    ELSE l

RECURSIVE skip_whitespace(_)
skip_whitespace(l) ==
    IF ~Panicked(l) /\ is_ascii_whitespace(l.ch)
    THEN skip_whitespace(read_char(l))
    ELSE l

\* variant: the slice starts one byte late
slice_from_next(l, from, to) ==
    IF from + 1 <= to /\ to <= Len(l.input)
    THEN [lex |-> l, str |-> SubSeq(l.input, from + 2, to)]
    ELSE [lex |-> [l EXCEPT !.panic = "slice"], str |-> <<>>]

\* &self.input[from..to]: a checked slice, which panics unless
\* from <= to <= len
Slice(l, from, to) ==
    IF from <= to /\ to <= Len(l.input)
    THEN [lex |-> l, str |-> from_utf8_lossy(SubSeq(l.input, from + 1, to))]
    ELSE [lex |-> [l EXCEPT !.panic = "slice"], str |-> <<>>]

RECURSIVE IdentLoop(_)
IdentLoop(l) ==
    IF ~Panicked(l) /\ IsIdentByte(l.ch)
    THEN IdentLoop(read_char(l))
    ELSE l

\* read_ident: [lex |-> the scanner afterwards, str |-> the String returned]
read_ident(l) ==
    LET current_pos == l.pos
        l1 == IdentLoop(l)
    IN  IF Panicked(l1) THEN [lex |-> l1, str |-> <<>>]
        ELSE Slice(l1, current_pos, l1.pos)

RECURSIVE IntLoop(_)
IntLoop(l) ==
    IF ~Panicked(l) /\ is_ascii_digit(l.ch)
    THEN IntLoop(read_char(l))
    ELSE l

\* read_int
read_int(l) ==
    LET current_pos == l.pos
        l1 == IntLoop(l)
    IN  IF Panicked(l1) THEN [lex |-> l1, str |-> <<>>]
        ELSE Slice(l1, current_pos, l1.pos)

\* variant: the keywords are matched without regard to case
LowerCase(str) ==
    [i \in 1..Len(str) |->
        IF CH_A <= str[i] /\ str[i] <= CH_Z THEN str[i] + (CH_a - CH_A)
        ELSE str[i]]

KeywordIgnoreCase(ident) ==
    LET low == LowerCase(ident) IN
    CASE low = KW_fn -> Tok("FUNCTION")
      [] low = KW_let -> Tok("LET")
      [] low = KW_if -> Tok("IF")
      [] low = KW_return -> Tok("RETURN")
      [] low = KW_true -> Tok("TRUE")
      [] low = KW_false -> Tok("FALSE")
      [] low = KW_else -> Tok("ELSE")
      [] OTHER -> TokLit("IDENT", ident)

\* the match on ident.as_str()
Keyword(ident) ==
    CASE ident = KW_fn -> Tok("FUNCTION")
      [] ident = KW_let -> Tok("LET")
      [] ident = KW_if -> Tok("IF")
      [] ident = KW_return -> Tok("RETURN")
      [] ident = KW_true -> Tok("TRUE")
      [] ident = KW_false -> Tok("FALSE")
      [] ident = KW_else -> Tok("ELSE")
      [] OTHER -> TokLit("IDENT", ident)

\* a branch's value, the scanner left as it is: [lex, tok, ret]; ret says
\* that the branch returns out of next_token, skipping the trailing
\* read_char
Branch(l, tok) == [lex |-> l, tok |-> tok, ret |-> FALSE]

\* variant: the second byte of == and != is not consumed
TwoCharNoAdvance(l, two, one) ==
    IF l.read_pos < Len(l.input) /\ l.input[l.read_pos + 1] = CH_ASSIGN
    THEN Branch(l, Tok(two))
    ELSE Branch(l, Tok(one))

\* b'=' => ...  and  b'!' => ...
TwoChar(l, two, one) ==
    LET p == peek_char(l) IN
    IF p < 0 THEN Branch([l EXCEPT !.panic = "index"], NoToken)
    ELSE IF p = CH_ASSIGN THEN Branch(read_char(l), Tok(two))
    ELSE Branch(l, Tok(one))

\* variant: the digit arm falls through to the trailing read_char
IntBranchAdvance(l) ==
    LET r == read_int(l) IN
    [lex |-> r.lex, ret |-> FALSE,
     tok |-> IF Panicked(r.lex) THEN NoToken ELSE TokLit("INT", r.str)]

\* b'0'..=b'9' => return Token::INT(self.read_int())
IntBranch(l) ==
    LET r == read_int(l) IN
    [lex |-> r.lex, ret |-> TRUE,
     tok |-> IF Panicked(r.lex) THEN NoToken ELSE TokLit("INT", r.str)]

\* b'a'..=b'z' | b'A'..=b'Z' | b'_' => { ... return match ... }
IdentBranch(l) ==
    LET r == read_ident(l) IN
    [lex |-> r.lex, ret |-> TRUE,
     tok |-> IF Panicked(r.lex) THEN NoToken ELSE Keyword(r.str)]

\* variant: the end-of-input arm returns at once, with no trailing read_char
EofBranchReturn(l) == [lex |-> l, tok |-> Tok("EOF"), ret |-> TRUE]

\* 0 => Token::EOF
EofBranch(l) == Branch(l, Tok("EOF"))

\* variant: the catch-all arm yields Token::ILLEGAL
UnclassifiedIllegal(l) == Branch(l, Tok("ILLEGAL"))

\* _ => unreachable!()
Unclassified(l) == Branch([l EXCEPT !.panic = "unreachable"], NoToken)

\* let tok = match self.ch { ... }
Match(l) ==
    LET c == l.ch IN
    CASE c = CH_ASSIGN -> TwoChar(l, "EQUAL", "ASSIGN")
      [] c = CH_BANG -> TwoChar(l, "NOTEQUAL", "BANG")
      [] c = CH_LBRACE -> Branch(l, Tok("LBRACE"))
      [] c = CH_RBRACE -> Branch(l, Tok("RBRACE"))
      [] c = CH_LPAREN -> Branch(l, Tok("LPAREN"))
      [] c = CH_RPAREN -> Branch(l, Tok("RPAREN"))
      [] c = CH_COMMA -> Branch(l, Tok("COMMA"))
      [] c = CH_SEMICOLON -> Branch(l, Tok("SEMICOLON"))
      [] c = CH_PLUS -> Branch(l, Tok("PLUS"))
      [] c = CH_MINUS -> Branch(l, Tok("MINUS"))
      [] c = CH_ASTERISK -> Branch(l, Tok("ASTERISK"))
      [] c = CH_SLASH -> Branch(l, Tok("SLASH"))
      [] c = CH_LT -> Branch(l, Tok("LT"))
      [] c = CH_GT -> Branch(l, Tok("GT"))
      [] is_ascii_digit(c) -> IntBranch(l)
      [] is_ascii_alphabetic(c) \/ c = CH_UNDERSCORE -> IdentBranch(l)
      [] c = CH_NONE -> EofBranch(l)
      [] OTHER -> Unclassified(l)

\* next_token: [lex |-> the scanner afterwards, tok |-> the token returned
\* (NoToken when the call panicked), start |-> pos when the match began]
next_token(l) ==
    LET s == skip_whitespace(l)
        m == IF Panicked(s) THEN Branch(s, NoToken) ELSE Match(s)
        e == IF m.ret \/ Panicked(m.lex) THEN m.lex ELSE read_char(m.lex)
    IN  [lex |-> e,
         tok |-> IF Panicked(e) THEN NoToken ELSE m.tok,
         start |-> s.pos]

(***************************************************************************)
(* Inputs.  Lexer::new takes a String, so an input is valid UTF-8: a byte  *)
(* above 0x7F only occurs inside a well-formed multi-byte sequence.  An    *)
(* input is a concatenation of fragments of one of three families:         *)
(*   CoreFrags  one byte of each class of the match, at most MaxFrags;     *)
(*   WideFrags  every byte the match names, the neighbours of its ranges   *)
(*              and bytes it does not name, at most MaxWide;               *)
(*   WordFrags  the keywords, words that resemble them and the bytes that  *)
(*              may surround them, at most MaxWords.                       *)
(***************************************************************************)
CoreFrags ==
    {<<CH_ASSIGN>>, <<CH_BANG>>, <<CH_SEMICOLON>>, <<CH_SPACE>>,
     <<49>>,                  \* 1
     <<CH_a>>, <<CH_UNDERSCORE>>,
     <<63>>,                  \* ?
     <<0>>,                   \* NUL
     KW_fn, KW_if}

WideFrags ==
    {<<CH_ASSIGN>>, <<CH_BANG>>, <<CH_LBRACE>>, <<CH_RBRACE>>, <<CH_LPAREN>>,
     <<CH_RPAREN>>, <<CH_COMMA>>, <<CH_SEMICOLON>>, <<CH_PLUS>>, <<CH_MINUS>>,
     <<CH_ASTERISK>>, <<CH_SLASH>>, <<CH_LT>>, <<CH_GT>>,
     <<CH_0>>, <<CH_9>>, <<CH_a>>, <<CH_z>>, <<CH_A>>, <<CH_Z>>,
     <<CH_UNDERSCORE>>,
     <<CH_SPACE>>, <<CH_TAB>>, <<CH_LF>>, <<CH_FF>>, <<CH_CR>>,
     <<11>>,                  \* vertical tab
     <<0>>,                   \* NUL
     <<63>>, <<58>>,          \* ? :
     <<64>>, <<91>>, <<96>>,  \* @ [ `
     <<195, 169>>}            \* U+00E9

WordFrags ==
    {KW_fn, KW_let, KW_if, KW_return, KW_true, KW_false, KW_else,
     <<76, 101, 116>>,        \* Let
     <<105, 102, 102, 121>>,  \* iffy
     <<120>>,                 \* x
     <<53>>,                  \* 5
     <<CH_SPACE>>}

RECURSIVE Concats(_, _)
Concats(frags, n) ==
    IF n = 0 THEN {<<>>}
    ELSE LET S == Concats(frags, n - 1) IN
         S \cup {s \o f : s \in S, f \in frags}

Inputs ==
    Concats(CoreFrags, MaxFrags) \cup Concats(WideFrags, MaxWide)
        \cup Concats(WordFrags, MaxWords)

(***************************************************************************)
(* The state: the fields of the scanner, and what its caller has seen.     *)
(***************************************************************************)
VARIABLES
    input,      \* Lexer.input
    pos,        \* Lexer.pos
    read_pos,   \* Lexer.read_pos
    ch,         \* Lexer.ch
    panic,      \* "none", or the panic that ended the last call
    calls,      \* number of next_token calls made
    tok,        \* what the last call returned (NoToken: nothing yet, or a panic)
    start,      \* pos when the match of the last call began
    toks,       \* the tokens returned so far, in order
    spans       \* for each of them, <<start, pos after the call>>

vars == <<input, pos, read_pos, ch, panic, calls, tok, start, toks, spans>>

Lexer ==
    [input |-> input, pos |-> pos, read_pos |-> read_pos, ch |-> ch,
     panic |-> panic]

EofCalls == Cardinality({i \in 1..Len(toks) : toks[i].type = "EOF"})

\* let mut lexer = Lexer::new(input)
Init ==
    \E in \in Inputs :
        LET l == new(in) IN
        /\ input = l.input
        /\ pos = l.pos
        /\ read_pos = l.read_pos
        /\ ch = l.ch
        /\ panic = l.panic
        /\ calls = 0
        /\ tok = NoToken
        /\ start = 0
        /\ toks = <<>>
        /\ spans = <<>>

\* lexer.next_token(); the caller stops after a panic, and after
\* MaxEofCalls calls have returned EOF
NextToken ==
    /\ panic = "none"
    /\ EofCalls < MaxEofCalls
    /\ calls < Len(input) + MaxEofCalls
    /\ LET r == next_token(Lexer) IN
        /\ pos' = r.lex.pos
        /\ read_pos' = r.lex.read_pos
        /\ ch' = r.lex.ch
        /\ panic' = r.lex.panic
        /\ calls' = calls + 1
        /\ tok' = r.tok
        /\ start' = r.start
        /\ toks' = IF Panicked(r.lex) THEN toks ELSE Append(toks, r.tok)
        /\ spans' = IF Panicked(r.lex) THEN spans
                    ELSE Append(spans, <<r.start, r.lex.pos>>)
    /\ UNCHANGED input

Next == NextToken

Spec == Init /\ [][Next]_vars

(***************************************************************************)
(* Vocabulary of the properties, written from the specification's words    *)
(* and independent of the operators above.  Indices are those of the       *)
(* source (from 0).                                                        *)
(***************************************************************************)
LetterBytes == (65..90) \cup (97..122)
DigitBytes == 48..57
IdentClass == LetterBytes \cup {95}
\* = + - ! * / < > , ; ( ) { }
PunctBytes == {61, 43, 45, 33, 42, 47, 60, 62, 44, 59, 40, 41, 123, 125}
\* space, tab, newline, carriage return
SpecWhitespace == {32, 9, 10, 13}
SupportedBytes ==
    LetterBytes \cup DigitBytes \cup {95} \cup SpecWhitespace \cup PunctBytes

SupportedInput == \A i \in 1..Len(input) : input[i] \in SupportedBytes

\* the byte at index i of the buffer, -1 outside it
ByteAt(i) == IF 0 <= i /\ i < Len(input) THEN input[i + 1] ELSE -1

\* the input bytes from index a up to, not including, index b
Text(a, b) == SubSeq(input, a + 1, b)

\* length of the maximal run of bytes of cls that starts at index i
RECURSIVE RunLen(_, _)
RunLen(i, cls) == IF ByteAt(i) \in cls THEN 1 + RunLen(i + 1, cls) ELSE 0

Returned == calls > 0 /\ panic = "none"

IsEof(t) == t.type = "EOF"

(***************************************************************************)
(* C1  Totality.  For every input made only of the supported ASCII         *)
(* alphabet, the empty input included, no next_token call panics, and the  *)
(* end-of-input token has been returned once length-of-input + 1 calls     *)
(* have been made.                                                         *)
(***************************************************************************)
C1_Totality ==
    SupportedInput =>
        /\ panic = "none"
        /\ Len(toks) = calls
        /\ (calls >= Len(input) + 1 => \E i \in 1..Len(toks) : IsEof(toks[i]))
        /\ (Len(input) = 0 /\ calls >= 1 => IsEof(toks[1]))

\* the bound is met: three one-byte tokens, then end-of-input at call 4
C1_Witness ==
    /\ SupportedInput
    /\ Len(input) = 3
    /\ calls = Len(input) + 1
    /\ IsEof(tok)
    /\ EofCalls = 1

(***************************************************************************)
(* C2  End-of-input is absorbing.  For every input over the supported      *)
(* alphabet, once a call has returned the end-of-input token every later   *)
(* call returns it too.                                                    *)
(***************************************************************************)
C2_EofAbsorbing ==
    SupportedInput =>
        \A i \in 1..Len(toks) :
            IsEof(toks[i]) =>
                /\ panic = "none"
                /\ \A j \in i..Len(toks) : IsEof(toks[j])

C2_Witness ==
    /\ SupportedInput
    /\ Len(input) >= 2
    /\ Len(toks) >= 4
    /\ ~IsEof(toks[Len(toks) - 2])
    /\ IsEof(toks[Len(toks) - 1])
    /\ IsEof(toks[Len(toks)])

(***************************************************************************)
(* C3  The tokens returned up to and including the first end-of-input are  *)
(* the reference tokenization of the input, read left to right: whitespace *)
(* yields no token, each punctuation byte its own token, == and != one     *)
(* token each, each digit run one INT with its text, each letter or        *)
(* underscore run a keyword or an IDENT with its text, then EOF.           *)
(***************************************************************************)
RefPunct(b) ==
    CASE b = 123 -> "LBRACE" [] b = 125 -> "RBRACE"
      [] b = 40 -> "LPAREN"  [] b = 41 -> "RPAREN"
      [] b = 44 -> "COMMA"   [] b = 59 -> "SEMICOLON"
      [] b = 43 -> "PLUS"    [] b = 45 -> "MINUS"
      [] b = 42 -> "ASTERISK" [] b = 47 -> "SLASH"
      [] b = 60 -> "LT"      [] b = 62 -> "GT"

RefWord(w) ==
    CASE w = <<102, 110>> -> Tok("FUNCTION")
      [] w = <<108, 101, 116>> -> Tok("LET")
      [] w = <<116, 114, 117, 101>> -> Tok("TRUE")
      [] w = <<102, 97, 108, 115, 101>> -> Tok("FALSE")
      [] w = <<105, 102>> -> Tok("IF")
      [] w = <<101, 108, 115, 101>> -> Tok("ELSE")
      [] w = <<114, 101, 116, 117, 114, 110>> -> Tok("RETURN")
      [] OTHER -> TokLit("IDENT", w)

\* the tokens of the input from index i on, end-of-input left out
RECURSIVE RefTokens(_)
RefTokens(i) ==
    LET b == ByteAt(i)
        two == ByteAt(i + 1) = 61
    IN  IF b \in SpecWhitespace THEN RefTokens(i + 1)
        ELSE IF b = 61 THEN
            IF two THEN <<Tok("EQUAL")>> \o RefTokens(i + 2)
            ELSE <<Tok("ASSIGN")>> \o RefTokens(i + 1)
        ELSE IF b = 33 THEN
            IF two THEN <<Tok("NOTEQUAL")>> \o RefTokens(i + 2)
            ELSE <<Tok("BANG")>> \o RefTokens(i + 1)
        ELSE IF b \in PunctBytes THEN <<Tok(RefPunct(b))>> \o RefTokens(i + 1)
        ELSE IF b \in DigitBytes THEN
            LET n == RunLen(i, DigitBytes) IN
            <<TokLit("INT", Text(i, i + n))>> \o RefTokens(i + n)
        ELSE IF b \in IdentClass THEN
            LET n == RunLen(i, IdentClass) IN
            <<RefWord(Text(i, i + n))>> \o RefTokens(i + n)
        ELSE <<>>

C3_ReferenceTokens ==
    SupportedInput =>
        LET ref == RefTokens(0) IN
        /\ panic = "none"
        /\ Len(toks) = calls
        /\ \A i \in 1..Len(toks) :
              toks[i] = IF i <= Len(ref) THEN ref[i] ELSE Tok("EOF")

\* a whole stream: a keyword, skipped whitespace, an integer or a
\* two-character operator, and the end-of-input that closes it
C3_Witness ==
    /\ SupportedInput
    /\ Len(toks) = Len(RefTokens(0)) + 1
    /\ IsEof(toks[Len(toks)])
    /\ \E p \in 1..Len(input) : input[p] \in SpecWhitespace
    /\ \E i, j \in 1..Len(toks) :
          /\ toks[i].type \in {"FUNCTION", "IF"}
          /\ toks[j].type \in {"INT", "EQUAL", "NOTEQUAL"}

(***************************************************************************)
(* C4  Maximal munch of payloads.  Whenever next_token returns an IDENT or *)
(* INT token, its text is the maximal run of bytes of its class (letters   *)
(* and underscore for IDENT, digits for INT) that starts at the token's    *)
(* first byte, and after the call the current character is the first byte  *)
(* after that run: none of the class, and none skipped.                    *)
(***************************************************************************)
C4_MaximalMunch ==
    (Returned /\ tok.type \in {"IDENT", "INT"}) =>
        LET cls == IF tok.type = "IDENT" THEN IdentClass ELSE DigitBytes
            n == RunLen(start, cls)
        IN  /\ n >= 1
            /\ tok.lit = Text(start, start + n)
            /\ pos = start + n
            /\ read_pos = pos + 1
            /\ ch = (IF pos < Len(input) THEN ByteAt(pos) ELSE 0)
            /\ ch \notin cls

\* an INT of two digits with an identifier right behind it
C4_Witness ==
    /\ Returned
    /\ tok.type = "INT"
    /\ Len(tok.lit) >= 2
    /\ ByteAt(pos) \in IdentClass

(***************************************************************************)
(* C5  As claimed: scanning never splits a contiguous run of ASCII         *)
(* letters, digits and underscores into two tokens, nor a contiguous digit *)
(* run: when a byte of a returned token and the byte after it are both of  *)
(* the run's class, the second belongs to the same token.                  *)
(***************************************************************************)
AlnumClass == LetterBytes \cup DigitBytes \cup {95}

\* byte i belongs to the k-th token returned
InToken(k, i) == spans[k][1] <= i /\ i < spans[k][2]

\* no returned token ends between two bytes that are both of cls
NeverSplits(cls) ==
    \A k \in 1..Len(toks) :
        \A i \in 0..(Len(input) - 1) :
            (~IsEof(toks[k]) /\ InToken(k, i)
             /\ ByteAt(i) \in cls /\ ByteAt(i + 1) \in cls)
                => InToken(k, i + 1)

C5_NoAlnumSplit == NeverSplits(AlnumClass) /\ NeverSplits(DigitBytes)

(***************************************************************************)
(* C5, amended: scanning never splits a contiguous run of ASCII letters    *)
(* and underscores into two tokens, nor a contiguous run of digits; a      *)
(* letter or underscore next to a digit does end the token.                *)
(***************************************************************************)
C5_NoRunSplit == NeverSplits(IdentClass) /\ NeverSplits(DigitBytes)

\* a run of three letters and underscores returned as one token, with a
\* digit behind it that is left for the next token
C5_Witness ==
    /\ Returned
    /\ tok.type = "IDENT"
    /\ Len(tok.lit) >= 2
    /\ \E i \in 1..Len(tok.lit) : tok.lit[i] = 95
    /\ ByteAt(pos) \in DigitBytes
    /\ InToken(Len(toks), start) /\ ~InToken(Len(toks), pos)

(***************************************************************************)
(* C6  Keyword precedence.  When next_token scans a run of letters and     *)
(* underscores it returns the keyword token exactly when the run's text is *)
(* fn, let, true, false, if, else or return, case-sensitively; for every   *)
(* other text it returns IDENT carrying the whole text.                    *)
(***************************************************************************)
KeywordTexts ==
    {<<102, 110>>, <<108, 101, 116>>, <<116, 114, 117, 101>>,
     <<102, 97, 108, 115, 101>>, <<105, 102>>, <<101, 108, 115, 101>>,
     <<114, 101, 116, 117, 114, 110>>}

KeywordTypes == {"FUNCTION", "LET", "TRUE", "FALSE", "IF", "ELSE", "RETURN"}

C6_KeywordPrecedence ==
    (calls > 0 /\ ByteAt(start) \in IdentClass) =>
        LET text == Text(start, start + RunLen(start, IdentClass)) IN
        /\ panic = "none"
        /\ (text = <<102, 110>>) <=> (tok = Tok("FUNCTION"))
        /\ (text = <<108, 101, 116>>) <=> (tok = Tok("LET"))
        /\ (text = <<116, 114, 117, 101>>) <=> (tok = Tok("TRUE"))
        /\ (text = <<102, 97, 108, 115, 101>>) <=> (tok = Tok("FALSE"))
        /\ (text = <<105, 102>>) <=> (tok = Tok("IF"))
        /\ (text = <<101, 108, 115, 101>>) <=> (tok = Tok("ELSE"))
        /\ (text = <<114, 101, 116, 117, 114, 110>>) <=> (tok = Tok("RETURN"))
        /\ (text \notin KeywordTexts) <=> (tok = TokLit("IDENT", text))

\* "Let" is an identifier, "let" behind it is the keyword
C6_Witness ==
    /\ Len(toks) = 2
    /\ toks[1] = TokLit("IDENT", <<76, 101, 116>>)
    /\ toks[2] = Tok("LET")

(***************************************************************************)
(* C7  Two-character lookahead.  When the current character is = (or !)    *)
(* and the byte right after it is =, next_token returns one EQUAL (or      *)
(* NOTEQUAL) and consumes both bytes; otherwise, the end of the buffer     *)
(* included, it returns ASSIGN (or BANG) and consumes one byte.  So ==     *)
(* never yields two ASSIGN, and === yields EQUAL then ASSIGN.              *)
(***************************************************************************)
C7_Lookahead ==
    /\ (calls > 0 /\ ByteAt(start) \in {61, 33}) =>
          LET eq == ByteAt(start) = 61
              two == ByteAt(start + 1) = 61
          IN  /\ panic = "none"
              /\ tok = IF two THEN Tok(IF eq THEN "EQUAL" ELSE "NOTEQUAL")
                       ELSE Tok(IF eq THEN "ASSIGN" ELSE "BANG")
              /\ pos = start + (IF two THEN 2 ELSE 1)
              /\ ch = (IF pos < Len(input) THEN ByteAt(pos) ELSE 0)
    /\ (input = <<61, 61>> /\ Len(toks) >= 1) => toks[1] = Tok("EQUAL")
    /\ (input = <<61, 61, 61>> /\ Len(toks) >= 2) =>
          toks[1] = Tok("EQUAL") /\ toks[2] = Tok("ASSIGN")

C7_Witness ==
    /\ input = <<61, 61, 61>>
    /\ toks = <<Tok("EQUAL"), Tok("ASSIGN"), Tok("EOF")>>

(***************************************************************************)
(* C8  Unclassified bytes are a fault, not a token.  next_token never      *)
(* returns ILLEGAL; when, whitespace skipped, the current byte is outside  *)
(* every classified branch (?, ., :, a byte above 0x7F, ...) the call ends *)
(* in the unconditional fault and returns no token.                        *)
(***************************************************************************)
ClassifiedBytes ==
    PunctBytes \cup DigitBytes \cup LetterBytes \cup {95} \cup {0}

C8_FaultNotToken ==
    /\ tok.type # "ILLEGAL"
    /\ \A i \in 1..Len(toks) : toks[i].type # "ILLEGAL"
    /\ (calls > 0 /\ start < Len(input)
        /\ ByteAt(start) \notin ClassifiedBytes) =>
          /\ panic = "unreachable"
          /\ tok = NoToken
          /\ Len(toks) = calls - 1

\* a token, then skipped whitespace, then a byte above 0x7F, ? or :
C8_Witness ==
    /\ panic = "unreachable"
    /\ Len(toks) >= 1
    /\ ~IsEof(toks[1])
    /\ start >= 2
    /\ ByteAt(start - 1) \in SpecWhitespace
    /\ ByteAt(start) \in {63, 58, 195}

(***************************************************************************)
(* C9  As claimed: when next_token is called with the buffer exhausted     *)
(* (the current character is the "none" sentinel), it returns end-of-input *)
(* and pos and read_pos have the same values after the call as before it.  *)
(***************************************************************************)
Exhausted == panic = "none" /\ ch = 0 /\ pos >= Len(input)

C9_NoAdvanceAtEof ==
    [][Exhausted => (IsEof(tok') /\ pos' = pos /\ read_pos' = read_pos)]_vars

(***************************************************************************)
(* C9, amended: when next_token is called with the buffer exhausted, it    *)
(* returns end-of-input and the current character stays the sentinel, but  *)
(* the trailing read_char still runs: pos and read_pos are each one more   *)
(* after the call than before it.                                          *)
(***************************************************************************)
C9_EofAdvancesByOne ==
    [][Exhausted =>
          /\ IsEof(tok')
          /\ panic' = "none"
          /\ ch' = 0
          /\ pos' = pos + 1
          /\ read_pos' = read_pos + 1]_vars

\* two calls made on the exhausted buffer of a non-empty input
C9_Witness ==
    /\ Len(input) >= 1
    /\ EofCalls >= 2
    /\ IsEof(tok)
    /\ ch = 0
    /\ start > Len(input)
    /\ pos = start + 1

(***************************************************************************)
(* C10  The "none" sentinel is distinct from every input byte: for any     *)
(* input, one holding the byte 0 included, next_token returns end-of-input *)
(* only when the cursor has reached the end of the buffer (pos >= length   *)
(* of the input when the match begins).                                    *)
(***************************************************************************)
C10_EofOnlyAtEnd ==
    \A k \in 1..Len(toks) : IsEof(toks[k]) => spans[k][1] >= Len(input)

(***************************************************************************)
(* C11  As claimed: whitespace skipping in next_token consumes exactly the *)
(* bytes space, tab, newline and carriage return: every byte between the   *)
(* cursor at the call and the byte handed to the match is one of the four, *)
(* and the byte handed to the match is none of them.                       *)
(***************************************************************************)
\* a next_token call: the bytes from pos up to start' are those it skipped,
\* the byte at start' is the one it classified
SkipsExactly(ws) ==
    /\ pos <= start'
    /\ \A i \in pos..(start' - 1) : ByteAt(i) \in ws
    /\ ByteAt(start') \notin ws

C11_SkipsFourBytes == [][SkipsExactly(SpecWhitespace)]_vars

(***************************************************************************)
(* C11, amended: whitespace skipping consumes exactly the bytes space,     *)
(* tab, newline, form feed and carriage return (what is_ascii_whitespace   *)
(* accepts) and no other byte value: the byte handed to the match is never *)
(* one of those five, and no other byte is ever skipped.                   *)
(***************************************************************************)
AsciiWhitespace == {32, 9, 10, 12, 13}

C11_SkipsFiveBytes == [][SkipsExactly(AsciiWhitespace)]_vars

\* a form feed skipped, the byte behind it returned as a token
C11_Witness ==
    /\ calls = 1
    /\ ByteAt(0) = 12
    /\ start = 1
    /\ Returned
    /\ ~IsEof(tok)

(***************************************************************************)
(* C12  peek_char is a pure lookahead: in every reachable state of the     *)
(* scanner it returns the byte right after the current character,          *)
(* input[pos + 1], when that index is inside the buffer, and the sentinel  *)
(* 0 otherwise.  It takes the scanner by shared reference: its value is a  *)
(* function of the state, and no field changes.                            *)
(***************************************************************************)
C12_PeekIsLookahead ==
    peek_char(Lexer) = IF pos + 1 < Len(input) THEN ByteAt(pos + 1) ELSE 0

\* the lookahead of the = arm: a token returned, the cursor on the first =
\* of ==, the second = inside the buffer
C12_Witness ==
    /\ Returned
    /\ ~IsEof(tok)
    /\ ch = 61
    /\ pos + 1 < Len(input)
    /\ peek_char(Lexer) = 61

(***************************************************************************)
(* C13  Cursor invariant.  Right after Lexer::new and after every          *)
(* completed next_token call, read_pos = pos + 1, and ch is input[pos]     *)
(* when pos is inside the buffer and the sentinel 0 when it is not; after  *)
(* construction pos = 0 and ch is the first byte, or the sentinel for the  *)
(* empty input.                                                            *)
(***************************************************************************)
C13_CursorInvariant ==
    panic = "none" =>
        /\ read_pos = pos + 1
        /\ ch = (IF pos < Len(input) THEN input[pos + 1] ELSE 0)
        /\ calls = 0 =>
              /\ pos = 0
              /\ ch = (IF Len(input) = 0 THEN 0 ELSE input[1])

\* after a second completed call, the cursor inside the buffer on a byte
\* that is not the sentinel
C13_Witness ==
    /\ Returned
    /\ ~IsEof(tok)
    /\ calls = 2
    /\ pos = 2
    /\ pos < Len(input)
    /\ ch # 0

(***************************************************************************)
(* C14  Lossless scanning.  For every input over the supported alphabet,   *)
(* the source spellings of the tokens returned before the first            *)
(* end-of-input (the payload of IDENT and INT, the keyword or operator     *)
(* text otherwise), concatenated in order, are the input with its          *)
(* whitespace bytes removed: no byte is dropped, none is in two tokens.    *)
(***************************************************************************)
Spelling(t) ==
    CASE t.type \in {"IDENT", "INT"} -> t.lit
      [] t.type = "ASSIGN" -> <<61>>     [] t.type = "PLUS" -> <<43>>
      [] t.type = "MINUS" -> <<45>>      [] t.type = "BANG" -> <<33>>
      [] t.type = "ASTERISK" -> <<42>>   [] t.type = "SLASH" -> <<47>>
      [] t.type = "LT" -> <<60>>         [] t.type = "GT" -> <<62>>
      [] t.type = "EQUAL" -> <<61, 61>>  [] t.type = "NOTEQUAL" -> <<33, 61>>
      [] t.type = "COMMA" -> <<44>>      [] t.type = "SEMICOLON" -> <<59>>
      [] t.type = "LPAREN" -> <<40>>     [] t.type = "RPAREN" -> <<41>>
      [] t.type = "LBRACE" -> <<123>>    [] t.type = "RBRACE" -> <<125>>
      [] t.type = "FUNCTION" -> <<102, 110>>
      [] t.type = "LET" -> <<108, 101, 116>>
      [] t.type = "TRUE" -> <<116, 114, 117, 101>>
      [] t.type = "FALSE" -> <<102, 97, 108, 115, 101>>
      [] t.type = "IF" -> <<105, 102>>
      [] t.type = "ELSE" -> <<101, 108, 115, 101>>
      [] t.type = "RETURN" -> <<114, 101, 116, 117, 114, 110>>
      [] OTHER -> <<>>

\* the spellings of toks[1..n], concatenated
RECURSIVE SpellFirst(_)
SpellFirst(n) == IF n = 0 THEN <<>> ELSE SpellFirst(n - 1) \o Spelling(toks[n])

\* the number of tokens returned before the first end-of-input
BeforeEof ==
    IF \E i \in 1..Len(toks) : IsEof(toks[i])
    THEN (CHOOSE i \in 1..Len(toks) :
            IsEof(toks[i]) /\ \A j \in 1..(i - 1) : ~IsEof(toks[j])) - 1
    ELSE Len(toks)

NotWhitespace(b) == b \notin SpecWhitespace

C14_Lossless ==
    SupportedInput =>
        /\ panic = "none"
        \* so far: the bytes before the cursor, whitespace removed
        /\ SpellFirst(BeforeEof)
             = SelectSeq(Text(0, IF pos < Len(input) THEN pos ELSE Len(input)),
                         NotWhitespace)
        \* at end-of-input: the whole input, whitespace removed
        /\ BeforeEof < Len(toks) =>
              SpellFirst(BeforeEof) = SelectSeq(input, NotWhitespace)

\* a keyword, whitespace and an identifier or integer, scanned to the end
C14_Witness ==
    /\ SupportedInput
    /\ IsEof(tok)
    /\ BeforeEof = 2
    /\ toks[1].type \in KeywordTypes
    /\ toks[2].type \in {"IDENT", "INT"}
    /\ Len(input) > Len(SpellFirst(2))

(***************************************************************************)
(* C15  Progress.  Every next_token call that returns a token other than   *)
(* end-of-input moves pos forward by at least one: by one for a            *)
(* single-character token, by two for EQUAL and NOTEQUAL, by the length of *)
(* the run for IDENT, INT and the keywords, each plus the number of        *)
(* whitespace bytes skipped first.  Hence at most length-of-input tokens   *)
(* other than end-of-input are ever returned.                              *)
(***************************************************************************)
\* the number of bytes the token returned by this call is made of
Width ==
    IF tok'.type \in {"EQUAL", "NOTEQUAL"} THEN 2
    ELSE IF tok'.type = "INT" THEN RunLen(start', DigitBytes)
    ELSE IF tok'.type \in {"IDENT"} \cup KeywordTypes
         THEN RunLen(start', IdentClass)
    ELSE 1

\* start' - pos bytes are skipped, then Width bytes are taken
CallProgress ==
    (calls' = calls + 1 /\ panic' = "none" /\ ~IsEof(tok')) =>
        /\ start' >= pos
        /\ Width >= 1
        /\ pos' = pos + (start' - pos) + Width
        /\ pos' >= pos + 1
        /\ pos' <= Len(input)

NonEofCount == Cardinality({i \in 1..Len(toks) : ~IsEof(toks[i])})

C15_Progress ==
    /\ [][CallProgress]_vars
    /\ [](NonEofCount <= Len(input))

\* a second call that skipped whitespace and returned a keyword
C15_Witness ==
    /\ Returned
    /\ calls = 2
    /\ tok.type \in KeywordTypes
    /\ ByteAt(start - 1) \in SpecWhitespace
    /\ pos = start + Len(Spelling(tok))
    /\ NonEofCount = 2

(***************************************************************************)
(* C16  Buffer-bounds safety.  For any input and any number of next_token  *)
(* calls, those made after end-of-input was returned included, every       *)
(* access to the buffer is in bounds: read_char and peek_char index it     *)
(* only below its length, read_ident and read_int slice it only with       *)
(* start <= pos <= length.  An access out of bounds is a panic of the      *)
(* checked index or slice.                                                 *)
(***************************************************************************)
C16_BoundsSafety ==
    /\ panic \notin {"index", "slice"}
    /\ peek_char(Lexer) >= 0
    /\ \A k \in 1..Len(toks) :
          toks[k].type \in {"IDENT", "INT"} \cup KeywordTypes =>
              /\ spans[k][1] <= spans[k][2]
              /\ spans[k][2] <= Len(input)

\* an identifier or integer sliced up to the very end of the buffer, then
\* two calls made past the end
C16_Witness ==
    /\ panic = "none"
    /\ Len(toks) >= 3
    /\ toks[1].type \in {"IDENT", "INT"}
    /\ spans[1][2] = Len(input)
    /\ EofCalls >= 2
    /\ read_pos > Len(input) + 1

====
